---- MODULE Spec2Model ----
(***************************************************************************)
(* SpeedTestService (services/SpeedTestService) as a state machine.        *)
(*                                                                         *)
(* JavaScript runs one handler at a time; control changes hands only at an *)
(* `await`.  Every action below is therefore one synchronous stretch of    *)
(* code: a public method called from outside, or the continuation of one   *)
(* startTest invocation from the await that has just resolved up to the    *)
(* next await (or to the end of the invocation, catch/finally included).   *)
(***************************************************************************)
EXTENDS Integers, Sequences, FiniteSets, TLC

\* ------------------------------------------------------------------ bounds
\* startTest invocations over the whole behaviour
MaxRuns == 2
\* chunks a throughput loop may move without the clock advancing
MaxChunks == 1
\* retryFunction calls of useAutoRetry that may be unsettled at once
MaxInFlight == 2
\* automatic retries useAutoRetry may start between two resetRetry calls
MaxAttempts == 5
\* calls of useSpeedTest's startTest
MaxCalls == 3

\* ------------------------------------------------------- program constants
PING_SAMPLES == 10
MAX_HISTORY_ITEMS == 50
DefaultTestDuration == 10
chunkSize == 32768
DefaultMaxRetries == 3
RetryBaseDelayMs == 2000

\* ---------------------------------------------------------- input domains
Runs == 1..MaxRuns
\* seconds an awaited network operation may take (coarse wall clock); even, so
\* that the progress formulas divide exactly
Steps == {0, 4, 10}
\* round-trip time of a successful probe, ms
Latencies == {20}
\* byte length of one chunk delivered by reader.read()
ReadLengths == {0, chunkSize}
\* what NetInfo.fetch() may report
NetInfos == [isConnected : BOOLEAN]

Phases == <<"ping", "download", "upload">>

Range(f) == {f[x] : x \in DOMAIN f}

\* ------------------------------------------------------------------ errors
NoError == [type |-> "none", message |-> ""]

createError(type, message) == [type |-> type, message |-> message]

\* ---------------------------------------------------------------- progress
ProgressEvent(state, progress) == [state |-> state, progress |-> progress]

\* ------------------------------------------------------------------- state
VARIABLES
    isRunning,      \* this.isRunning
    shouldStop,     \* this.shouldStop
    currentConfig,  \* this.currentConfig (the fields the sequence reads)
    progress,       \* the last event handed to progressCallback
    emitted,        \* the events handed to progressCallback by the most recent
                    \* synchronous step that handed it any, in order
    storage,        \* the item AsyncStorage holds under 'speedtest_history'
    runs,           \* the startTest invocations, in call order
    fnArgs,         \* the arguments of a computation taken on its own
    fnResult,       \* what that computation returned or threw
    cleared,        \* the records clearHistory has removed from the store
    autoRetry,      \* useAutoRetry: its props, its state and its timer
    hook            \* useSpeedTest: its state and its startTest calls

vars == <<isRunning, shouldStop, currentConfig, progress, emitted, storage,
          runs, fnArgs, fnResult, cleared, autoRetry, hook>>

\* ------------------------------------------------------------ AsyncStorage
\* getItem gives null: nothing was stored, or removeItem took it
Absent == [kind |-> "absent"]

\* a string JSON.parse throws on
Garbage == [kind |-> "garbage"]

\* JSON.stringify(history): records are kept by their identity
Stringify(history) == [kind |-> "json", items |-> history]

\* existingData ? JSON.parse(existingData) : [], for a string that parses
Parse(existingData) ==
    IF existingData.kind = "json" THEN existingData.items ELSE <<>>

\* No computation is taken on its own.
NoCall == [fn |-> "none"]

NotApplied == [kind |-> "pending"]

\* useAutoRetry, useSpeedTest: not mounted.
Unmounted == [mounted |-> FALSE]

NewRun ==
    [pc         |-> "new",      \* the await the invocation is suspended at
     i          |-> 0,          \* testPing: loop index
     pings      |-> <<>>,       \* testPing: pings
     elapsed    |-> 0,          \* Date.now() - startTime of the current phase, s
     totalBytes |-> 0,          \* testDownload / testUpload: totalBytes
     okChunks   |-> 0,          \* testUpload: POSTs answered with response.ok
     existing   |-> <<>>,       \* saveTestResult: history
     networkInfo |-> <<>>,      \* startTest: networkInfo, once fetched
     outcome    |-> "pending",  \* "pending" | "result" | "error"
     error      |-> NoError,    \* what the invocation threw
     started    |-> <<>>,       \* phases whose first request was issued, in order
     returned   |-> {},         \* phases that returned a value
     stopped    |-> FALSE,      \* stopTest was called while it was in progress
     transport  |-> "none",     \* a transfer request or read threw: "empty" with
                                \* totalBytes = 0, "partial" with more
     wasRunning |-> FALSE]      \* this.isRunning as startTest found it

Init ==
    /\ isRunning = FALSE
    /\ shouldStop = FALSE
    /\ currentConfig = [testDuration |-> DefaultTestDuration]
    /\ progress = ProgressEvent("idle", 0)
    /\ emitted = <<>>
    /\ storage = Absent
    /\ runs = [r \in Runs |-> NewRun]
    /\ fnArgs = NoCall
    /\ fnResult = NotApplied
    /\ cleared = {}
    /\ autoRetry = Unmounted
    /\ hook = Unmounted

InProgress(r) == runs[r].pc \notin {"new", "done"}

\* The invocation is executing a phase (testPing, testDownload, testUpload).
InPhase(r) ==
    runs[r].pc \in {"ping_fetch", "ping_sleep", "dl_fetch", "dl_read", "ul_fetch"}

\* ------------------------------------------------- end of a synchronous step
Last(ev, old) == IF ev = <<>> THEN old ELSE ev[Len(ev)]

\* The step of invocation r ends suspended (or finished) as `run`, having
\* emitted `ev` and left the two flags and the store as given.
Commit(r, run, ev, running, stop, store) ==
    /\ runs' = [runs EXCEPT ![r] = run]
    /\ progress' = Last(ev, progress)
    /\ emitted' = IF ev = <<>> THEN emitted ELSE ev
    /\ isRunning' = running
    /\ shouldStop' = stop
    /\ storage' = store
    /\ UNCHANGED <<currentConfig, fnArgs, fnResult, cleared, autoRetry, hook>>

\* Suspended at the next await: nothing but the invocation's locals moved.
Suspend(r, run, ev) == Commit(r, run, ev, isRunning, shouldStop, storage)

\* The invocation has ended: its locals are gone.
Finished(run) ==
    [run EXCEPT !.pc = "done", !.i = 0, !.pings = <<>>, !.elapsed = 0,
                !.totalBytes = 0, !.okChunks = 0, !.existing = <<>>]

\* (mutant) the catch block does not rethrow: the invocation returns
ThrowSwallowed(r, run, ev, err) ==
    Commit(r, [Finished(run) EXCEPT !.outcome = "result"],
           Append(ev, ProgressEvent("error", 0)), FALSE, FALSE, storage)

\* startTest: catch (error) { updateProgress('error', 0); throw error }
\*            finally { isRunning = false; shouldStop = false }
Throw(r, run, ev, err) ==
    Commit(r, [Finished(run) EXCEPT !.outcome = "error", !.error = err],
           Append(ev, ProgressEvent("error", 0)), FALSE, FALSE, storage)

\* startTest: return result; finally { isRunning = false; shouldStop = false }
Return(r, run, ev, store) ==
    Commit(r, [Finished(run) EXCEPT !.outcome = "result"],
           ev, FALSE, FALSE, store)

StoppedError == createError("unknown-error", "Test was stopped by user")

\* checkShouldStop: the condition under which it throws StoppedError
checkShouldStop == shouldStop

Min(a, b) == IF a < b THEN a ELSE b

\* --------------------------------------------------------------- arithmetic
\* JavaScript numbers that are not integers are kept as non-negative fractions
\* in lowest terms, so that a division followed by Math.round is exact.
RECURSIVE GCD(_, _)
GCD(a, b) == IF b = 0 THEN a ELSE GCD(b, a % b)

Rat(n, d) == LET g == GCD(n, d) IN [num |-> n \div g, den |-> d \div g]

\* x * y
RatMul(x, y) ==
    LET g == GCD(x.num, y.den)
        h == GCD(y.num, x.den)
    IN  Rat((x.num \div g) * (y.num \div h), (x.den \div h) * (y.den \div g))

\* x / y, y not zero
RatDiv(x, y) == RatMul(x, [num |-> y.den, den |-> y.num])

\* Math.round(x): the nearest integer, a half going up
MathRound(x) == (2 * x.num + x.den) \div (2 * x.den)

Abs(x) == IF x < 0 THEN -x ELSE x

\* pings.reduce((a, b) => a + b)
RECURSIVE Sum(_)
Sum(s) == IF s = <<>> THEN 0 ELSE s[1] + Sum(Tail(s))

\* --------------------------------------------------------- testPing, its end
\* calculateJitter: for (let i = 1; i < pings.length; i++)
\*                      jitterSum += Math.abs(pings[i] - pings[i - 1])
\* from the (1-based) index i on
RECURSIVE JitterSum(_, _)
JitterSum(pings, i) ==
    IF i > Len(pings) THEN 0
    ELSE Abs(pings[i] - pings[i - 1]) + JitterSum(pings, i + 1)

\* (mutant) the sum of differences is divided by the number of pings
calculateJitterPerPing(pings) ==
    IF Len(pings) < 2 THEN Rat(0, 1)
    ELSE Rat(JitterSum(pings, 2), Len(pings))

\* calculateJitter(pings)
calculateJitter(pings) ==
    IF Len(pings) < 2 THEN Rat(0, 1)
    ELSE Rat(JitterSum(pings, 2), Len(pings) - 1)

\* (mutant) the share of probes that succeeded
PacketLossOfSuccesses(samples, pings) ==
    RatMul(Rat(Len(pings), samples), Rat(100, 1))

\* testPing: ((samples - pings.length) / samples) * 100
PacketLoss(samples, pings) ==
    RatMul(Rat(samples - Len(pings), samples), Rat(100, 1))

\* (mutant) a single lost probe fails the sampler
NoSamplesStrict(pings) == Len(pings) < PING_SAMPLES

\* testPing: if (pings.length === 0) throw
NoSamples(pings) == Len(pings) = 0

\* testPing after its loop: what it throws or returns for the pings collected
PingResult(pings) ==
    IF NoSamples(pings)
    THEN [kind |-> "error",
          error |-> createError("server-unreachable",
                                "Could not reach ping server")]
    ELSE LET avgPing == Rat(Sum(pings), Len(pings))
             jitter == calculateJitter(pings)
             packetLoss == PacketLoss(PING_SAMPLES, pings)
         IN  [kind |-> "result",
              ping |-> MathRound(avgPing),
              jitter |-> MathRound(jitter),
              packetLoss |-> Rat(MathRound(RatMul(packetLoss, Rat(10, 1))), 10)]

\* ------------------------------------------ testDownload / testUpload, the end
\* A number that is not finite: 0 / 0 and x / 0
NotFinite(totalBytes) ==
    [kind |-> IF totalBytes = 0 THEN "NaN" ELSE "Infinity"]

\* (mutant) megabits of 1000 * 1000 bits
DownloadMbpsDecimal(totalBytes, ms) ==
    IF ms = 0 THEN NotFinite(totalBytes)
    ELSE LET timeSeconds == Rat(ms, 1000)
             bitsPerSecond == RatDiv(Rat(totalBytes * 8, 1), timeSeconds)
             mbps == RatDiv(bitsPerSecond, Rat(1000 * 1000, 1))
         IN  [kind |-> "number",
              value |-> Rat(MathRound(RatMul(mbps, Rat(100, 1))), 100)]

\* testDownload: timeSeconds, bitsPerSecond, mbps; Math.round(mbps * 100) / 100
\* for totalBytes moved in ms milliseconds
DownloadMbps(totalBytes, ms) ==
    IF ms = 0 THEN NotFinite(totalBytes)
    ELSE LET timeSeconds == Rat(ms, 1000)
             bitsPerSecond == RatDiv(Rat(totalBytes * 8, 1), timeSeconds)
             mbps == RatDiv(bitsPerSecond, Rat(1024 * 1024, 1))
         IN  [kind |-> "number",
              value |-> Rat(MathRound(RatMul(mbps, Rat(100, 1))), 100)]

\* testUpload: the same computation on its own totalBytes and startTime
UploadMbps(totalBytes, ms) ==
    IF ms = 0 THEN NotFinite(totalBytes)
    ELSE LET timeSeconds == Rat(ms, 1000)
             bitsPerSecond == RatDiv(Rat(totalBytes * 8, 1), timeSeconds)
             mbps == RatDiv(bitsPerSecond, Rat(1024 * 1024, 1))
         IN  [kind |-> "number",
              value |-> Rat(MathRound(RatMul(mbps, Rat(100, 1))), 100)]

\* ------------------------------------------------------------ saveTestResult
\* (mutant) the history is not cut
UnshiftUncut(history, result) == <<result>> \o history

\* history.unshift(result); splice(MAX_HISTORY_ITEMS)
Unshift(history, result) ==
    LET h == <<result>> \o history
    IN  IF Len(h) > MAX_HISTORY_ITEMS THEN SubSeq(h, 1, MAX_HISTORY_ITEMS) ELSE h

\* saveTestResult up to `await AsyncStorage.getItem(key)`
BeginSave(r, run, ev) == Suspend(r, [run EXCEPT !.pc = "save_get"], ev)

\* ------------------------------------------- executeTestSequence, from its end
\* updateProgress('completed', 100); return {...}; then startTest saves it
Complete(r, run, ev) ==
    BeginSave(r, run, Append(ev, ProgressEvent("completed", 100)))

\* testUpload returned; checkShouldStop()
UploadDone(r, run, ev) ==
    LET done == [run EXCEPT !.returned = @ \cup {"upload"}]
    IN  IF checkShouldStop
        THEN Throw(r, done, ev, StoppedError)
        ELSE Complete(r, done, ev)

\* testUpload: while (Date.now() - startTime < duration && !this.shouldStop)
UploadLoop(r, run, ev) ==
    IF run.elapsed < currentConfig.testDuration /\ ~shouldStop
    THEN Suspend(r, [run EXCEPT !.pc = "ul_fetch",
                                !.started = IF "upload" \in Range(@) THEN @
                                            ELSE Append(@, "upload")], ev)
    ELSE UploadDone(r, run, ev)

\* updateProgress('testing-upload', 70); testUpload()
BeginUpload(r, run, ev) ==
    UploadLoop(r, [run EXCEPT !.elapsed = 0, !.totalBytes = 0, !.okChunks = 0],
               Append(ev, ProgressEvent("testing-upload", 70)))

\* (mutant) a download that moved nothing fails
DownloadDoneFailsEmpty(r, run, ev) ==
    LET done == [run EXCEPT !.returned = @ \cup {"download"}]
    IN  IF run.totalBytes = 0
        THEN Throw(r, run, ev,
                   createError("server-unreachable", "Download test failed"))
        ELSE IF checkShouldStop
             THEN Throw(r, done, ev, StoppedError)
             ELSE BeginUpload(r, done, ev)

\* testDownload returned; checkShouldStop()
DownloadDone(r, run, ev) ==
    LET done == [run EXCEPT !.returned = @ \cup {"download"}]
    IN  IF checkShouldStop
        THEN Throw(r, done, ev, StoppedError)
        ELSE BeginUpload(r, done, ev)

\* testDownload: while (Date.now() - startTime < duration && !this.shouldStop)
DownloadLoop(r, run, ev) ==
    IF run.elapsed < currentConfig.testDuration /\ ~shouldStop
    THEN Suspend(r, [run EXCEPT !.pc = "dl_read"], ev)
    ELSE DownloadDone(r, run, ev)

\* updateProgress('testing-download', 30); testDownload() up to `await fetch`
BeginDownload(r, run, ev) ==
    Suspend(r, [run EXCEPT !.pc = "dl_fetch", !.elapsed = 0, !.totalBytes = 0,
                           !.started = Append(@, "download")],
            Append(ev, ProgressEvent("testing-download", 30)))

\* (mutant) the download is skipped
PingReturnedThenUpload(r, run, ev) ==
    LET done == [run EXCEPT !.returned = @ \cup {"ping"}]
    IN  IF checkShouldStop
        THEN Throw(r, done, ev, StoppedError)
        ELSE BeginUpload(r, done, ev)

\* testPing returned; checkShouldStop(); on to the download
PingReturned(r, run, ev) ==
    LET done == [run EXCEPT !.returned = @ \cup {"ping"}]
    IN  IF checkShouldStop
        THEN Throw(r, done, ev, StoppedError)
        ELSE BeginDownload(r, done, ev)

\* testPing after its loop
PingDone(r, run, ev) ==
    LET pingResult == PingResult(run.pings)
    IN  IF pingResult.kind = "error"
        THEN Throw(r, run, ev, pingResult.error)
        ELSE PingReturned(r, run, ev)

\* (mutant) the first lost probe ends the sampling
PingLoopEndsOnLoss(r, run, ev) ==
    IF run.i < PING_SAMPLES /\ Len(run.pings) = run.i
    THEN IF checkShouldStop
         THEN Throw(r, run, ev, StoppedError)
         ELSE Suspend(r, [run EXCEPT !.pc = "ping_fetch",
                                     !.started = IF "ping" \in Range(@) THEN @
                                                 ELSE Append(@, "ping")], ev)
    ELSE PingDone(r, run, ev)

\* testPing: for (i < samples) { checkShouldStop(); await fetch(HEAD) ...
PingLoop(r, run, ev) ==
    IF run.i < PING_SAMPLES
    THEN IF checkShouldStop
         THEN Throw(r, run, ev, StoppedError)
         ELSE Suspend(r, [run EXCEPT !.pc = "ping_fetch",
                                     !.started = IF "ping" \in Range(@) THEN @
                                                 ELSE Append(@, "ping")], ev)
    ELSE PingDone(r, run, ev)

\* updateProgress('testing-ping', 10); testPing(serverInfo)
BeginPing(r, run, ev) ==
    PingLoop(r, [run EXCEPT !.i = 0, !.pings = <<>>],
             Append(ev, ProgressEvent("testing-ping", 10)))

\* ------------------------------------------------------------------ actions
\* Configurations a caller may pass to startTest
TestDurations == {DefaultTestDuration}

\* (mutant) the guard never fires
NeverRunning == FALSE

\* startTest: if (this.isRunning) throw ...
AlreadyRunning == isRunning

\* (mutant) the guard throws inside the try block: catch and finally run
RejectedInsideTry(r) ==
    Throw(r, [runs[r] EXCEPT !.wasRunning = isRunning], <<>>,
          createError("unknown-error", "Test already running"))

\* startTest: throw createError('unknown-error', 'Test already running'),
\* ahead of the try block
Rejected(r) ==
    /\ runs' = [runs EXCEPT ![r] =
                 [@ EXCEPT !.pc = "done", !.outcome = "error",
                           !.error = createError("unknown-error",
                                                 "Test already running"),
                           !.wasRunning = isRunning]]
    /\ UNCHANGED <<isRunning, shouldStop, currentConfig, progress,
                   emitted, storage, fnArgs, fnResult, cleared,
                   autoRetry, hook>>

\* startTest(config) from the call to `await this.getNetworkInfo()`
StartTest ==
    \E d \in TestDurations, r \in Runs :
        /\ runs[r].pc = "new"
        /\ \A q \in Runs : q < r => runs[q].pc # "new"
        /\ IF AlreadyRunning
           THEN Rejected(r)
           ELSE /\ currentConfig' = [testDuration |-> d]
                /\ isRunning' = TRUE
                /\ shouldStop' = FALSE
                /\ runs' = [runs EXCEPT ![r] =
                             [@ EXCEPT !.pc = "netinfo",
                                       !.wasRunning = isRunning]]
                /\ UNCHANGED <<progress, emitted, storage, fnArgs, fnResult,
                               cleared, autoRetry, hook>>

\* stopTest()
StopTest ==
    /\ shouldStop' = TRUE
    /\ isRunning' = FALSE
    /\ progress' = ProgressEvent("idle", 0)
    /\ emitted' = <<ProgressEvent("idle", 0)>>
    /\ runs' = [r \in Runs |->
                  IF InProgress(r) THEN [runs[r] EXCEPT !.stopped = TRUE]
                  ELSE runs[r]]
    /\ UNCHANGED <<currentConfig, storage, fnArgs, fnResult, cleared,
                   autoRetry, hook>>

\* (mutant) the connectivity test never fails
AlwaysConnected(info) == FALSE

\* startTest: if (!networkInfo.isConnected) throw
NoConnection(info) == ~info.isConnected

\* `await this.getNetworkInfo()` resolves or rejects; on to selectBestServer
NetInfoResolves(r) ==
    /\ runs[r].pc = "netinfo"
    /\ \/ \E info \in NetInfos :
            LET run == [runs[r] EXCEPT !.networkInfo = <<info>>]
            IN  IF NoConnection(info)
                THEN Throw(r, run, <<>>,
                           createError("network-unavailable",
                                       "No network connection"))
                ELSE Suspend(r, [run EXCEPT !.pc = "select"], <<>>)
       \/ Throw(r, runs[r], <<>>,
                createError("unclassified", "NetInfo.fetch rejected"))

\* `await this.selectBestServer()` resolves; on to the first probe
SelectResolves(r) ==
    /\ runs[r].pc = "select"
    /\ BeginPing(r, runs[r], <<>>)

\* testPing: `await fetch(pingTestUrl)` resolves ok, resolves not ok, or rejects
PingFetchResolves(r) ==
    /\ runs[r].pc = "ping_fetch"
    /\ \/ \E ping \in Latencies :
            Suspend(r, [runs[r] EXCEPT !.pc = "ping_sleep",
                                       !.pings = Append(@, ping)], <<>>)
       \/ Suspend(r, [runs[r] EXCEPT !.pc = "ping_sleep"], <<>>)

\* testPing: `await this.sleep(100)` resolves; i++ and the loop test
PingSleepResolves(r) ==
    /\ runs[r].pc = "ping_sleep"
    /\ PingLoop(r, [runs[r] EXCEPT !.i = @ + 1], <<>>)

\* The clock may stand still over an awaited operation only MaxChunks times
\* per phase.
Advance(run, d) ==
    /\ d \in Steps
    /\ d = 0 => run.totalBytes < MaxChunks * chunkSize

DownloadFailed == createError("server-unreachable", "Download test failed")

UploadFailed == createError("server-unreachable", "Upload test failed")

\* What a transfer that threw had accumulated.
Accumulated(run) == IF run.totalBytes = 0 THEN "empty" ELSE "partial"

\* (mutant) a download that threw after some bytes returns what it measured
DownloadThrowsKeepsBytes(r, run) ==
    IF run.totalBytes > 0
    THEN DownloadDone(r, [run EXCEPT !.transport = Accumulated(run)], <<>>)
    ELSE Throw(r, [run EXCEPT !.transport = Accumulated(run)], <<>>,
               DownloadFailed)

\* testDownload: catch (error) { throw createError('server-unreachable', ...) }
DownloadThrows(r, run) ==
    Throw(r, [run EXCEPT !.transport = Accumulated(run)], <<>>, DownloadFailed)

\* testUpload: catch (error) { throw createError('server-unreachable', ...) }
UploadThrows(r, run) ==
    Throw(r, [run EXCEPT !.transport = Accumulated(run)], <<>>, UploadFailed)

\* testDownload: `await fetch(downloadTestUrl)` resolves with a body, resolves
\* without one, or rejects
DownloadFetchResolves(r) ==
    /\ runs[r].pc = "dl_fetch"
    /\ \/ \E d \in Steps :
            DownloadLoop(r, [runs[r] EXCEPT !.elapsed = @ + d], <<>>)
       \/ DownloadThrows(r, runs[r])

\* (mutant) the download percentage is not capped
DownloadProgressUncapped(elapsed, duration) == 30 + (elapsed * 40) \div duration

\* testDownload: 30 + ((Date.now() - startTime) / duration) * 40, capped at 70
DownloadProgress(elapsed, duration) == Min(30 + (elapsed * 40) \div duration, 70)

\* testDownload: `await reader.read()` resolves with a chunk, resolves done, or
\* rejects
DownloadReadResolves(r) ==
    /\ runs[r].pc = "dl_read"
    /\ \/ \E d \in Steps, len \in ReadLengths :
            /\ Advance(runs[r], d)
            /\ LET run == [runs[r] EXCEPT !.elapsed = @ + d,
                                          !.totalBytes = @ + len]
               IN  DownloadLoop(r, run,
                       <<ProgressEvent("testing-download",
                             DownloadProgress(run.elapsed,
                                              currentConfig.testDuration))>>)
       \/ \E d \in Steps :
            /\ Advance(runs[r], d)
            /\ DownloadDone(r, [runs[r] EXCEPT !.elapsed = @ + d], <<>>)
       \/ DownloadThrows(r, runs[r])

\* testUpload: 70 + ((Date.now() - startTime) / duration) * 25, capped at 95
UploadProgress(elapsed, duration) == Min(70 + (elapsed * 25) \div duration, 95)

\* (mutant) a chunk counts whatever its status
UploadedAnyStatus(totalBytes, ok) == totalBytes + chunkSize

\* testUpload: if (response.ok) { totalBytes += chunkSize }
Uploaded(totalBytes, ok) == IF ok THEN totalBytes + chunkSize ELSE totalBytes

\* testUpload: `await fetch(uploadTestUrl, POST)` resolves ok, resolves not ok,
\* or rejects
UploadFetchResolves(r) ==
    /\ runs[r].pc = "ul_fetch"
    /\ \/ \E d \in Steps, ok \in BOOLEAN :
            /\ Advance(runs[r], d)
            /\ LET run == [runs[r] EXCEPT !.elapsed = @ + d,
                                          !.totalBytes = Uploaded(@, ok),
                                          !.okChunks = IF ok THEN @ + 1 ELSE @]
               IN  UploadLoop(r, run,
                       <<ProgressEvent("testing-upload",
                             UploadProgress(run.elapsed,
                                            currentConfig.testDuration))>>)
       \/ UploadThrows(r, runs[r])

\* (mutant) a failure while saving reaches startTest's catch
SaveFailsRun(r) ==
    Throw(r, runs[r], <<>>,
          createError("unknown-error", "Failed to save test result"))

\* saveTestResult: catch (error) { console.warn(...) }; startTest returns the
\* result
SaveFails(r) == Return(r, runs[r], <<>>, storage)

\* saveTestResult: `await AsyncStorage.getItem(key)` resolves with the item (on
\* to setItem, unless JSON.parse throws on it) or rejects
SaveGetResolves(r) ==
    /\ runs[r].pc = "save_get"
    /\ \/ IF storage = Garbage
          THEN SaveFails(r)
          ELSE Suspend(r, [runs[r] EXCEPT !.pc = "save_set",
                                          !.existing = Unshift(Parse(storage), r)],
                       <<>>)
       \/ SaveFails(r)

\* saveTestResult: `await AsyncStorage.setItem(key, JSON.stringify(history))`
\* resolves or rejects; startTest returns the result
SaveSetResolves(r) ==
    /\ runs[r].pc = "save_set"
    /\ \/ Return(r, runs[r], <<>>, Stringify(runs[r].existing))
       \/ SaveFails(r)

Next ==
    \/ StartTest
    \/ StopTest
    \/ \E r \in Runs :
        \/ NetInfoResolves(r)
        \/ SelectResolves(r)
        \/ PingFetchResolves(r)
        \/ PingSleepResolves(r)
        \/ DownloadFetchResolves(r)
        \/ DownloadReadResolves(r)
        \/ UploadFetchResolves(r)
        \/ SaveGetResolves(r)
        \/ SaveSetResolves(r)

Spec == Init /\ [][Next]_vars


\* ---------------------------------------- the computations, each on its own
\* testPing's reduction of the pings it collected, and the throughput of a
\* transfer, applied to arguments drawn from the values the loops can leave.
SampleLatencies == {100, 110, 120}

\* pings after the loop: one entry per successful probe, at most PING_SAMPLES
PingInputs == UNION {[1..n -> SampleLatencies] : n \in 0..PING_SAMPLES}

\* totalBytes after a transfer loop
ByteTotals == {0, chunkSize, 3 * chunkSize, 40 * chunkSize}

\* Date.now() - startTime after a transfer loop, ms
ElapsedMs == {0, 500, 1000, 3000, 10000}

\* pings of a sampler that returned: at least one entry, latencies alternating
RecordPings ==
    {[k \in 1..n |-> IF k % 2 = 1 THEN a ELSE b] :
        n \in 1..PING_SAMPLES, a \in SampleLatencies, b \in SampleLatencies}

\* Date.now() - startTime when testUpload's loop ends unstopped: the loop runs
\* while the elapsed time is below duration
UploadElapsedMs == {t \in ElapsedMs : t >= DefaultTestDuration * 1000}

FnCalls ==
    {[fn |-> "testPing", pings |-> p] : p \in PingInputs}
    \cup {[fn |-> f, totalBytes |-> b, ms |-> t] :
             f \in {"testDownload", "testUpload"}, b \in ByteTotals,
             t \in ElapsedMs}
    \cup {[fn |-> "executeTestSequence", pings |-> p,
           download |-> [totalBytes |-> db, ms |-> dt],
           upload |-> [totalBytes |-> ub, ms |-> ut]] :
             p \in RecordPings, db \in ByteTotals, dt \in ElapsedMs,
             ub \in ByteTotals, ut \in UploadElapsedMs}

FnInit ==
    /\ isRunning = FALSE
    /\ shouldStop = FALSE
    /\ currentConfig = [testDuration |-> DefaultTestDuration]
    /\ progress = ProgressEvent("idle", 0)
    /\ emitted = <<>>
    /\ storage = Absent
    /\ runs = [r \in Runs |-> NewRun]
    /\ fnArgs \in FnCalls
    /\ fnResult = NotApplied
    /\ cleared = {}
    /\ autoRetry = Unmounted
    /\ hook = Unmounted

\* What a computation taken on its own leaves alone.
serviceVars ==
    <<isRunning, shouldStop, currentConfig, progress, emitted, storage, runs>>

\* testPing leaves its loop with fnArgs.pings
TestPingEnds ==
    /\ fnArgs.fn = "testPing"
    /\ fnResult = NotApplied
    /\ fnResult' = PingResult(fnArgs.pings)
    /\ UNCHANGED <<serviceVars, fnArgs, cleared, autoRetry, hook>>

\* testDownload leaves its loop with fnArgs.totalBytes after fnArgs.ms
TestDownloadEnds ==
    /\ fnArgs.fn = "testDownload"
    /\ fnResult = NotApplied
    /\ fnResult' = DownloadMbps(fnArgs.totalBytes, fnArgs.ms)
    /\ UNCHANGED <<serviceVars, fnArgs, cleared, autoRetry, hook>>

\* testUpload leaves its loop with fnArgs.totalBytes after fnArgs.ms
TestUploadEnds ==
    /\ fnArgs.fn = "testUpload"
    /\ fnResult = NotApplied
    /\ fnResult' = UploadMbps(fnArgs.totalBytes, fnArgs.ms)
    /\ UNCHANGED <<serviceVars, fnArgs, cleared, autoRetry, hook>>

\* executeTestSequence: the three phases have returned and the record is put
\* together from what they returned (its measured fields)
SpeedTestResult(pingResult, downloadSpeed, uploadSpeed) ==
    [downloadSpeed |-> downloadSpeed,
     uploadSpeed |-> uploadSpeed,
     ping |-> pingResult.ping,
     jitter |-> pingResult.jitter,
     packetLoss |-> pingResult.packetLoss]

ExecuteTestSequenceReturns ==
    /\ fnArgs.fn = "executeTestSequence"
    /\ fnResult = NotApplied
    /\ fnResult' =
          SpeedTestResult(
              PingResult(fnArgs.pings),
              DownloadMbps(fnArgs.download.totalBytes, fnArgs.download.ms),
              UploadMbps(fnArgs.upload.totalBytes, fnArgs.upload.ms))
    /\ UNCHANGED <<serviceVars, fnArgs, cleared, autoRetry, hook>>

FnNext ==
    \/ TestPingEnds
    \/ TestDownloadEnds
    \/ TestUploadEnds
    \/ ExecuteTestSequenceReturns

FnSpec == FnInit /\ [][FnNext]_vars

\* ------------------------------------------------- the history on its own
\* saveTestResult and clearHistory against whatever the store holds: nothing,
\* a string that does not parse, or a list written earlier (an older build may
\* have left one longer than MAX_HISTORY_ITEMS).  Both invocations have
\* completed their phases and called saveTestResult, the first of them stopped
\* and overtaken by the second.
StoredLengths == 0..(MAX_HISTORY_ITEMS + 2)

\* n records of earlier runs, most recent first (identities above 100)
OldRecords(n) == [k \in 1..n |-> 100 + n - k + 1]

StoredItems ==
    {Absent, Garbage} \cup {Stringify(OldRecords(n)) : n \in StoredLengths}

\* An invocation at `await AsyncStorage.getItem(key)`
Saving(stopped) ==
    [NewRun EXCEPT !.pc = "save_get",
                   !.i = PING_SAMPLES,
                   !.pings = [k \in 1..PING_SAMPLES |-> 20],
                   !.elapsed = DefaultTestDuration,
                   !.networkInfo = <<[isConnected |-> TRUE]>>,
                   !.started = Phases,
                   !.returned = Range(Phases),
                   !.stopped = stopped]

StoreInit ==
    /\ isRunning = TRUE
    /\ shouldStop = FALSE
    /\ currentConfig = [testDuration |-> DefaultTestDuration]
    /\ progress = ProgressEvent("completed", 100)
    /\ emitted = <<ProgressEvent("testing-upload", 95),
                   ProgressEvent("completed", 100)>>
    /\ storage \in StoredItems
    /\ runs = [r \in Runs |-> Saving(r < MaxRuns)]
    /\ fnArgs = NoCall
    /\ fnResult = NotApplied
    /\ cleared = {}
    /\ autoRetry = Unmounted
    /\ hook = Unmounted

\* clearHistory: `await AsyncStorage.removeItem('speedtest_history')` takes
\* effect (its rejection changes nothing in the store)
ClearHistory ==
    /\ storage' = Absent
    /\ cleared' = cleared \cup Range(Parse(storage))
    /\ UNCHANGED <<isRunning, shouldStop, currentConfig, progress, emitted,
                   runs, fnArgs, fnResult, autoRetry, hook>>

StoreNext ==
    \/ ClearHistory
    \/ \E r \in Runs :
        \/ SaveGetResolves(r)
        \/ SaveSetResolves(r)

StoreSpec == StoreInit /\ [][StoreNext]_vars

\* ------------------------------------------------------------ useAutoRetry
\* The hook as its owner sees it: the error prop, the two pieces of state, the
\* pending setTimeout (0: none, else its delay in ms) and the retryFunction
\* calls that have not settled.  A state change, the render it causes and the
\* effect that follows the render are one step.  retryFunction is either any
\* async function, which may reject, or useSpeedTest's retryTest on a device
\* that stays without connectivity.
ErrorProps ==
    {"none", "network-unavailable", "server-unreachable", "timeout",
     "permission-denied", "unknown-error"}

RetryFunctions == {"any", "retryTest"}

\* (mutant) the delay doubles with every failure
RetryDelayDoubling(retryCount) == RetryBaseDelayMs * (2 ^ retryCount)

\* useAutoRetry: 2000 * (retryCount + 1)
RetryDelay(retryCount) == RetryBaseDelayMs * (retryCount + 1)

\* useAutoRetry, the effect's condition
ShouldRetry(a) ==
    /\ a.error = "network-unavailable"
    /\ a.retryCount < a.maxRetries
    /\ ~a.isRetrying

\* useAutoRetry, the effect after a render in which a dependency changed: the
\* cleanup clears the pending timer, the effect sets a new one or none
Effect(a) ==
    [a EXCEPT !.timer = IF ShouldRetry(a) THEN RetryDelay(a.retryCount) ELSE 0]

\* useAutoRetry: hasReachedMaxRetries
hasReachedMaxRetries(a) == a.retryCount >= a.maxRetries

\* useAutoRetry(error, retryFunction) mounted
Mounted(error, retryFunction) ==
    Effect([mounted       |-> TRUE,
            error         |-> error,
            retryFunction |-> retryFunction,
            maxRetries    |-> DefaultMaxRetries,
            retryCount    |-> 0,
            isRetrying    |-> FALSE,
            timer         |-> 0,
            inFlight      |-> 0,    \* retryFunction calls not yet settled
            attempts      |-> 0])   \* timers fired since mount or resetRetry

RetryInit ==
    /\ isRunning = FALSE
    /\ shouldStop = FALSE
    /\ currentConfig = [testDuration |-> DefaultTestDuration]
    /\ progress = ProgressEvent("idle", 0)
    /\ emitted = <<>>
    /\ storage = Absent
    /\ runs = [r \in Runs |-> NewRun]
    /\ fnArgs = NoCall
    /\ fnResult = NotApplied
    /\ cleared = {}
    /\ autoRetry \in {Mounted(e, f) : e \in ErrorProps, f \in RetryFunctions}
    /\ hook = Unmounted

RetryStep(a) ==
    /\ autoRetry' = a
    /\ UNCHANGED <<serviceVars, fnArgs, fnResult, cleared, hook>>

\* The owner renders with another error (retryFunction being any function).
ErrorChanges ==
    \E e \in ErrorProps :
        /\ autoRetry.retryFunction = "any"
        /\ e # autoRetry.error
        /\ RetryStep(Effect([autoRetry EXCEPT !.error = e]))

\* The timer fires: setIsRetrying(true); retryFunction() is called and awaited.
\* retryTest begins with setError(null).
TimerFires ==
    /\ autoRetry.timer # 0
    /\ autoRetry.inFlight < MaxInFlight
    /\ autoRetry.attempts < MaxAttempts
    /\ RetryStep(Effect([autoRetry EXCEPT
                            !.isRetrying = TRUE,
                            !.inFlight = @ + 1,
                            !.attempts = @ + 1,
                            !.error = IF autoRetry.retryFunction = "retryTest"
                                      THEN "none" ELSE @]))

\* `await retryFunction()` resolves: setRetryCount(0); setIsRetrying(false).
\* retryTest resolves whatever became of the run, having set the error the run
\* ended with: without connectivity, 'network-unavailable'.
RetryResolves ==
    /\ autoRetry.inFlight > 0
    /\ RetryStep(Effect([autoRetry EXCEPT
                            !.retryCount = 0,
                            !.isRetrying = FALSE,
                            !.inFlight = @ - 1,
                            !.error = IF autoRetry.retryFunction = "retryTest"
                                      THEN "network-unavailable" ELSE @]))

\* `await retryFunction()` rejects: setRetryCount(prev => prev + 1);
\* setIsRetrying(false).  retryTest never rejects: useSpeedTest.startTest
\* catches every error.
RetryRejects ==
    /\ autoRetry.inFlight > 0
    /\ autoRetry.retryFunction = "any"
    /\ RetryStep(Effect([autoRetry EXCEPT
                            !.retryCount = @ + 1,
                            !.isRetrying = FALSE,
                            !.inFlight = @ - 1]))

\* resetRetry(): setRetryCount(0); setIsRetrying(false)
ResetRetry ==
    /\ autoRetry.retryCount # 0 \/ autoRetry.isRetrying \/ autoRetry.attempts # 0
    /\ RetryStep(Effect([autoRetry EXCEPT
                            !.retryCount = 0,
                            !.isRetrying = FALSE,
                            !.attempts = 0]))

RetryNext ==
    \/ ErrorChanges
    \/ TimerFires
    \/ RetryResolves
    \/ RetryRejects
    \/ ResetRetry

RetrySpec == RetryInit /\ [][RetryNext]_vars

\* ------------------------------------------------------------- useSpeedTest
\* The hook and the service it owns, the service seen through its interface:
\* a startTest() of the service that was let in goes from one progress event to
\* the next (ServiceStages) until it resolves or rejects.  `progress` is the
\* hook's progress state, which the service's callback and the hook itself
\* set; hook.error holds the type of the error state.
HookCalls == 1..MaxCalls

ServiceStages ==
    <<"netinfo", "testing-ping", "testing-download", "testing-upload",
      "completed">>

\* updateProgress(state, n) as executeTestSequence calls it on entering a stage
StageProgress(k) ==
    CASE ServiceStages[k] = "testing-ping" -> ProgressEvent("testing-ping", 10)
      [] ServiceStages[k] = "testing-download" ->
             ProgressEvent("testing-download", 30)
      [] ServiceStages[k] = "testing-upload" ->
             ProgressEvent("testing-upload", 70)
      [] ServiceStages[k] = "completed" -> ProgressEvent("completed", 100)

\* what makes the service's startTest throw in a stage, the stop aside
StageError(k) ==
    IF ServiceStages[k] = "netinfo" THEN "network-unavailable"
    ELSE "server-unreachable"

NewCall ==
    [pc      |-> "idle",    \* "idle" | "precheck" | "service" | "load" | "done"
     stage   |-> 0,         \* index in ServiceStages of the service's startTest
     outcome |-> "pending", \* "returned": at the guard; "result"; "error"
     during  |-> {}]        \* the calls in progress when this one was made

\* useSpeedTest() mounted: the effect has created the service and called
\* loadTestHistory(), which has done setIsLoading(true) and awaits getItem
MountedHook ==
    [mounted   |-> TRUE,
     error     |-> "none",
     isLoading |-> TRUE,
     loading   |-> TRUE,    \* the effect's loadTestHistory() has not settled
     calls     |-> [c \in HookCalls |-> NewCall]]

HookInit ==
    /\ isRunning = FALSE
    /\ shouldStop = FALSE
    /\ currentConfig = [testDuration |-> DefaultTestDuration]
    /\ progress = ProgressEvent("idle", 0)
    /\ emitted = <<>>
    /\ storage = Absent
    /\ runs = [r \in Runs |-> NewRun]
    /\ fnArgs = NoCall
    /\ fnResult = NotApplied
    /\ cleared = {}
    /\ autoRetry = Unmounted
    /\ hook = MountedHook

\* The call is past the guard and has not reached its finally block.
Calling(c) == hook.calls[c].pc \in {"precheck", "service", "load"}

HookStep(h, p, running, stop) ==
    /\ hook' = h
    /\ progress' = p
    /\ isRunning' = running
    /\ shouldStop' = stop
    /\ UNCHANGED <<currentConfig, emitted, storage, runs, fnArgs, fnResult,
                   cleared, autoRetry>>

\* One call of `h` replaced.
WithCall(h, c, call) == [h EXCEPT !.calls[c] = call]

\* startTest: catch (err) { setError(errorInfo); setProgress({state: 'error'}) }
\*            finally { setIsLoading(false) }
Caught(c, type, running, stop) ==
    HookStep(WithCall([hook EXCEPT !.error = type, !.isLoading = FALSE], c,
                      [hook.calls[c] EXCEPT !.pc = "done",
                                            !.outcome = "error"]),
             ProgressEvent("error", 0), running, stop)

\* startTest: serviceRef.current.isTestRunning()
TestRunning == isRunning

\* startTest() of the hook, from the call to `await getNetworkInfo()`
HookStartTest ==
    \E c \in HookCalls :
        /\ hook.calls[c].pc = "idle"
        /\ \A b \in HookCalls : b < c => hook.calls[b].pc # "idle"
        /\ LET call == [hook.calls[c] EXCEPT
                           !.during = {d \in HookCalls : Calling(d)}]
           IN  IF TestRunning
               THEN HookStep(WithCall(hook, c,
                                 [call EXCEPT !.pc = "done",
                                              !.outcome = "returned"]),
                             progress, isRunning, shouldStop)
               ELSE HookStep(WithCall([hook EXCEPT !.error = "none",
                                                   !.isLoading = TRUE], c,
                                      [call EXCEPT !.pc = "precheck"]),
                             progress, isRunning, shouldStop)

\* `await getNetworkInfo()` settles in the hook; with a connection the service's
\* startTest() is called, which throws at once if this.isRunning and else takes
\* the lock and awaits its own getNetworkInfo()
PrecheckResolves ==
    \E c \in HookCalls :
        /\ hook.calls[c].pc = "precheck"
        /\ \/ \E info \in NetInfos :
                IF NoConnection(info)
                THEN Caught(c, "network-unavailable", isRunning, shouldStop)
                ELSE IF AlreadyRunning
                THEN Caught(c, "unknown-error", isRunning, shouldStop)
                ELSE HookStep(WithCall(hook, c,
                                  [hook.calls[c] EXCEPT !.pc = "service",
                                                        !.stage = 1]),
                              progress, TRUE, FALSE)
           \/ Caught(c, "unclassified", isRunning, shouldStop)

\* The service's startTest() enters its next stage: checkShouldStop() throws
\* (catch: updateProgress('error'); finally: both flags false), or the stage's
\* progress event is handed to setProgress
ServiceAdvances ==
    \E c \in HookCalls :
        /\ hook.calls[c].pc = "service"
        /\ hook.calls[c].stage < Len(ServiceStages)
        /\ IF checkShouldStop
           THEN Caught(c, "unknown-error", FALSE, FALSE)
           ELSE HookStep(WithCall(hook, c,
                             [hook.calls[c] EXCEPT !.stage = @ + 1]),
                         StageProgress(hook.calls[c].stage + 1),
                         isRunning, shouldStop)

\* The service's startTest() throws in a stage for a reason of its own
ServiceFails ==
    \E c \in HookCalls :
        /\ hook.calls[c].pc = "service"
        /\ hook.calls[c].stage < Len(ServiceStages)
        /\ Caught(c, StageError(hook.calls[c].stage), FALSE, FALSE)

\* The service's startTest() returns its result (finally: both flags false);
\* setCurrentTest(result); loadTestHistory() up to `await getItem`
ServiceResolves ==
    \E c \in HookCalls :
        /\ hook.calls[c].pc = "service"
        /\ hook.calls[c].stage = Len(ServiceStages)
        /\ HookStep(WithCall([hook EXCEPT !.isLoading = TRUE], c,
                             [hook.calls[c] EXCEPT !.pc = "load"]),
                    progress, FALSE, FALSE)

\* loadTestHistory() called by startTest settles (it catches its own errors:
\* setError); finally setIsLoading(false), in loadTestHistory and in startTest
HistoryLoaded ==
    \E c \in HookCalls, ok \in BOOLEAN :
        /\ hook.calls[c].pc = "load"
        /\ HookStep(WithCall([hook EXCEPT
                                 !.error = IF ok THEN @ ELSE "unknown-error",
                                 !.isLoading = FALSE], c,
                             [hook.calls[c] EXCEPT !.pc = "done",
                                                   !.outcome = "result"]),
                    progress, isRunning, shouldStop)

\* loadTestHistory() called by the mount effect settles
MountLoaded ==
    \E ok \in BOOLEAN :
        /\ hook.loading
        /\ HookStep([hook EXCEPT !.error = IF ok THEN @ ELSE "unknown-error",
                                 !.isLoading = FALSE,
                                 !.loading = FALSE],
                    progress, isRunning, shouldStop)

\* stopTest() of the hook with a test running: the service's stopTest(), then
\* setProgress({state: 'idle'}); setIsLoading(false)
HookStopTest ==
    /\ isRunning
    /\ HookStep([hook EXCEPT !.isLoading = FALSE],
                ProgressEvent("idle", 0), FALSE, TRUE)

HookNext ==
    \/ HookStartTest
    \/ PrecheckResolves
    \/ ServiceAdvances
    \/ ServiceFails
    \/ ServiceResolves
    \/ HistoryLoaded
    \/ MountLoaded
    \/ HookStopTest

HookSpec == HookInit /\ [][HookNext]_vars


\* ------------------------------------------------------------------- claims
Done(r) == runs[r].pc = "done"

\* loadTestHistory: the records it reads from the store
Load == Parse(storage)

Stored(r) == r \in Range(Load)

IsPrefix(s, t) == Len(s) <= Len(t) /\ \A k \in 1..Len(s) : s[k] = t[k]

\* C1: a startTest call that finds isRunning true throws 'unknown-error' at
\* once and never enters a phase: it issues no request, returns no result and
\* stores nothing.
C1_StartWhileRunningRejected ==
    \A r \in Runs :
        (runs[r].pc # "new" /\ runs[r].wasRunning) =>
            /\ Done(r)
            /\ runs[r].outcome = "error"
            /\ runs[r].error.type = "unknown-error"
            /\ runs[r].networkInfo = <<>>
            /\ runs[r].started = <<>>
            /\ runs[r].returned = {}
            /\ ~Stored(r)

\* A call was rejected while another invocation was executing a phase.
C1_Witness ==
    \E r, q \in Runs :
        /\ runs[r].wasRunning /\ Done(r)
        /\ runs[r].error = createError("unknown-error", "Test already running")
        /\ InPhase(q)

\* C2: at most one invocation is executing a phase (ping, download, upload) at
\* any time, whatever the interleaving of startTest and stopTest calls.
C2_OnePhaseSequence == Cardinality({r \in Runs : InPhase(r)}) <= 1

\* C3: an invocation that was in progress when stopTest was called never
\* returns a result and never gets its result into the history.
C3_StoppedRunFails ==
    \A r \in Runs :
        runs[r].stopped => runs[r].outcome # "result" /\ ~Stored(r)

\* C4: an invocation that aborts because checkShouldStop saw the flag throws
\* an error of class Cancelled, not of class Unknown or any other class.
C4_StopIsCancelled ==
    \A r \in Runs :
        (Done(r) /\ runs[r].error.message = "Test was stopped by user") =>
            /\ runs[r].error.type = "cancelled"
            /\ runs[r].error.type \notin {"unknown-error", "network-unavailable",
                                         "server-unreachable", "timeout"}

\* C5: once a stopped invocation has unwound on observing the stop, and no
\* other call was made, the last progress state delivered is 'idle'.
C5_StoppedRunReportsIdle ==
    \A r \in Runs :
        ( /\ runs[r].stopped /\ Done(r)
          /\ runs[r].error = StoppedError
          /\ \A q \in Runs \ {r} : runs[q].pc = "new" )
        => progress.state = "idle"

\* C6: stopTest called while no invocation is in progress changes nothing: the
\* is-running flag stays false and no progress event reaches the observer.
C6_IdleStopIsNoOp ==
    [][ (StopTest /\ \A r \in Runs : ~InProgress(r)) =>
            /\ isRunning' = FALSE
            /\ progress' = progress ]_vars

\* C7: isTestRunning() is true exactly when some admitted startTest invocation
\* has not yet returned or thrown.
C7_IsRunningIffInProgress == isRunning <=> \E r \in Runs : InProgress(r)

\* C8: an invocation whose reachability lookup reports isConnected = false
\* throws 'network-unavailable' without issuing a probe or a transfer request
\* and without a result or a history entry; the step that fails it reports
\* 'error', leaves isRunning false and leaves the store alone.
C8_NoConnectionState ==
    \A r \in Runs :
        runs[r].networkInfo = <<[isConnected |-> FALSE]>> =>
            /\ Done(r)
            /\ runs[r].outcome = "error"
            /\ runs[r].error.type = "network-unavailable"
            /\ runs[r].started = <<>>
            /\ runs[r].returned = {}
            /\ ~Stored(r)

C8_NoConnectionStep ==
    \A r \in Runs :
        ( /\ runs[r].networkInfo = <<>>
          /\ runs'[r].networkInfo = <<[isConnected |-> FALSE]>> ) =>
            /\ progress' = ProgressEvent("error", 0)
            /\ isRunning' = FALSE
            /\ storage' = storage
            /\ currentConfig' = currentConfig
            /\ \A q \in Runs \ {r} : runs'[q] = runs[q]

C8_NoConnectionFails == []C8_NoConnectionState /\ [][C8_NoConnectionStep]_vars

\* An invocation failed on isConnected = false while stopTest had been called
\* on it.
C8_Witness ==
    \E r \in Runs :
        /\ runs[r].networkInfo = <<[isConnected |-> FALSE]>>
        /\ runs[r].error.type = "network-unavailable"
        /\ runs[r].stopped
        /\ progress.state = "error"

\* C9: within one invocation the phases start in the order ping, download,
\* upload, none twice; a phase starts only after the previous one returned, and
\* the operation in flight belongs to the phase started last.
C9_PhaseOrder ==
    \A r \in Runs :
        LET run == runs[r] IN
        /\ IsPrefix(run.started, Phases)
        /\ \A k \in 2..Len(run.started) : Phases[k - 1] \in run.returned
        /\ run.returned \subseteq Range(run.started)
        /\ run.pc \in {"ping_fetch", "ping_sleep"} =>
              run.started = <<"ping">> /\ run.returned = {}
        /\ run.pc \in {"dl_fetch", "dl_read"} =>
              run.started = <<"ping", "download">> /\ run.returned = {"ping"}
        /\ run.pc = "ul_fetch" =>
              run.started = Phases /\ run.returned = {"ping", "download"}
        /\ run.pc \in {"save_get", "save_set"} =>
              run.started = Phases /\ run.returned = Range(Phases)

\* Two invocations overlap, one uploading and one downloading.
C9_Witness ==
    \E r, q \in Runs : runs[r].pc = "ul_fetch" /\ runs[q].pc = "dl_read"

PhaseError(p) ==
    CASE p = "ping" ->
            createError("server-unreachable", "Could not reach ping server")
      [] p = "download" -> createError("server-unreachable", "Download test failed")
      [] p = "upload" -> createError("server-unreachable", "Upload test failed")

\* The invocation ended inside phase p: p started and did not return.
EndedIn(r, p) ==
    /\ Done(r)
    /\ runs[r].started # <<>>
    /\ runs[r].started[Len(runs[r].started)] = p
    /\ p \notin runs[r].returned

\* C10: an invocation that ends inside a phase ends with an error, either that
\* phase's own 'server-unreachable' error or the stop error, after which no
\* later phase started; only an invocation whose three phases returned has a
\* result or a history entry; and the step in which an invocation fails
\* reports 'error'.
C10_PhaseFailureState ==
    \A r \in Runs :
        /\ \A p \in Range(Phases) :
              EndedIn(r, p) =>
                  /\ runs[r].outcome = "error"
                  /\ runs[r].error \in {PhaseError(p), StoppedError}
        /\ runs[r].error.type = "server-unreachable" =>
              \E p \in Range(Phases) :
                  EndedIn(r, p) /\ runs[r].error = PhaseError(p)
        /\ runs[r].outcome = "error" => ~Stored(r)
        /\ (runs[r].outcome = "result" \/ Stored(r)
              \/ runs[r].pc \in {"save_get", "save_set"}) =>
              runs[r].returned = Range(Phases)

C10_PhaseFailureStep ==
    \A r \in Runs :
        (InProgress(r) /\ runs'[r].outcome = "error") =>
            /\ progress' = ProgressEvent("error", 0)
            /\ storage' = storage

C10_PhaseFailureAborts ==
    []C10_PhaseFailureState /\ [][C10_PhaseFailureStep]_vars

\* A download failed while the other invocation went on to store its result.
C10_Witness ==
    \E r, q \in Runs :
        /\ EndedIn(r, "download") /\ runs[r].error = PhaseError("download")
        /\ runs[q].outcome = "result" /\ Stored(q)

\* The classes of failure the error taxonomy names, as the code spells them
\* ("cancelled" is the spelling a Cancelled class would have).
ErrorClasses ==
    {"network-unavailable", "server-unreachable", "timeout", "cancelled",
     "unknown-error"}

\* C11: every startTest invocation that throws throws an error whose type is
\* one of the classes of the taxonomy; a rejection of the reachability lookup
\* included, which is to surface as 'unknown-error'.
C11_FailuresClassified ==
    \A r \in Runs :
        runs[r].outcome = "error" => runs[r].error.type \in ErrorClasses

\* C12: every 'testing-ping' event handed to the observer comes right after a
\* 'connecting' event, handed to it once selectBestServer has resolved.
C12_ConnectingBeforePing ==
    \A k \in 1..Len(emitted) :
        emitted[k].state = "testing-ping" =>
            k > 1 /\ emitted[k - 1].state = "connecting"

\* The percentages an event of the given state may carry.
Allocation(state) ==
    CASE state = "testing-ping" -> {10}
      [] state = "testing-download" -> 30..70
      [] state = "testing-upload" -> 70..95
      [] state = "completed" -> {100}
      [] OTHER -> 0..100

\* C13: every event handed to the observer carries a percentage within the
\* allocation of its state: 10 for 'testing-ping', 30..70 for
\* 'testing-download', 70..95 for 'testing-upload', 100 for 'completed', and
\* 0..100 whatever the state.
C13_ProgressAllocation ==
    \A k \in 1..Len(emitted) :
        /\ emitted[k].progress \in Allocation(emitted[k].state)
        /\ emitted[k].progress \in 0..100

\* A read that resolved after the duration had passed is reported at the cap,
\* and its event is followed at once by the first event of the upload.
C13_Witness ==
    /\ emitted = <<ProgressEvent("testing-download", 70),
                   ProgressEvent("testing-upload", 70)>>
    /\ \E r \in Runs : runs[r].pc = "ul_fetch" /\ runs[r].totalBytes = 0

\* C15: testPing issues its probes one after the other, PING_SAMPLES of them
\* unless stopTest cuts it short: whatever a probe's outcome (ok, not ok or
\* thrown) the sleep follows it, a probe that did not answer ok adds nothing to
\* pings, the next probe follows the sleep while fewer than PING_SAMPLES were
\* issued, and the sampler ends only after the sleep of probe PING_SAMPLES.
C15_ProbesState ==
    \A r \in Runs :
        LET run == runs[r] IN
        /\ run.pc = "ping_fetch" =>
              run.i \in 0..(PING_SAMPLES - 1) /\ Len(run.pings) <= run.i
        /\ run.pc = "ping_sleep" =>
              run.i \in 0..(PING_SAMPLES - 1) /\ Len(run.pings) <= run.i + 1

C15_ProbesStep ==
    \A r \in Runs :
        LET run == runs[r]
            next == runs'[r]
        IN  /\ (run.pc = "ping_fetch" /\ next.pc # "ping_fetch") =>
                  /\ next.pc = "ping_sleep"
                  /\ next.i = run.i
                  /\ \/ next.pings = run.pings
                     \/ \E ping \in Latencies :
                            next.pings = Append(run.pings, ping)
            /\ (run.pc = "ping_sleep" /\ next.pc # "ping_sleep") =>
                  IF run.i + 1 < PING_SAMPLES
                  THEN \/ /\ next.pc = "ping_fetch"
                          /\ next.i = run.i + 1
                          /\ next.pings = run.pings
                       \/ /\ shouldStop
                          /\ next.pc = "done"
                          /\ next.error = StoppedError
                  ELSE next.pc \notin {"ping_fetch", "ping_sleep"}

C15_ProbesInSequence == []C15_ProbesState /\ [][C15_ProbesStep]_vars

\* Nine probes were lost and the tenth is in flight.
C15_Witness ==
    \E r \in Runs :
        /\ runs[r].pc = "ping_fetch"
        /\ runs[r].i = PING_SAMPLES - 1
        /\ runs[r].pings = <<>>

\* testPing has ended on the pings of fnArgs.
PingEnded == fnArgs.fn = "testPing" /\ fnResult # NotApplied

\* C14: testPing throws 'server-unreachable' exactly when no probe of its loop
\* succeeded; with one success or more it returns a result, however many of
\* the PING_SAMPLES probes were lost.
C14_UnreachableIffNoSuccess ==
    PingEnded =>
        /\ fnResult.kind = "error" <=> Len(fnArgs.pings) = 0
        /\ fnResult.kind = "error" =>
              fnResult.error.type = "server-unreachable"
        /\ Len(fnArgs.pings) >= 1 => fnResult.kind = "result"

\* testPing returned a result with a single successful probe.
C14_Witness ==
    PingEnded /\ Len(fnArgs.pings) = 1 /\ fnResult.kind = "result"

\* C16: with s of the PING_SAMPLES probes successful, s in 1..PING_SAMPLES,
\* the packetLoss returned is (PING_SAMPLES - s) / PING_SAMPLES * 100 exactly;
\* 7 successes give 30.
C16_PacketLoss ==
    (PingEnded /\ Len(fnArgs.pings) \in 1..PING_SAMPLES) =>
        LET s == Len(fnArgs.pings)
            loss == fnResult.packetLoss
        IN  /\ loss.num * PING_SAMPLES = (PING_SAMPLES - s) * 100 * loss.den
            /\ s = 7 => loss = [num |-> 30, den |-> 1]

\* testPing returned a packet loss of 30 for 7 successes.
C16_Witness ==
    /\ PingEnded /\ Len(fnArgs.pings) = 7
    /\ fnResult.packetLoss = [num |-> 30, den |-> 1]

\* The absolute differences between consecutive entries of a sequence.
ConsecutiveDiffs(s) ==
    [k \in 1..(Len(s) - 1) |-> Abs(s[k + 1] - s[k])]

\* C17: the jitter returned is the mean of the absolute differences between
\* consecutive successful latencies, in probe order, rounded to the nearest
\* whole number (a half going up); it is 0 with fewer than 2 successes, and
\* <<100, 120, 110>> gives 15.
C17_Jitter ==
    (PingEnded /\ fnResult.kind = "result") =>
        LET pings == fnArgs.pings
            n == Len(pings)
            j == fnResult.jitter
            total == Sum(ConsecutiveDiffs(pings))
        IN  /\ n < 2 => j = 0
            /\ n >= 2 =>
                  /\ (2 * j - 1) * (n - 1) <= 2 * total
                  /\ 2 * total < (2 * j + 1) * (n - 1)
            /\ pings = <<100, 120, 110>> => j = 15

\* testPing returned a jitter of 15 for <<100, 120, 110>>, where the mean over
\* all pairs would have been 13.
C17_Witness ==
    PingEnded /\ fnArgs.pings = <<100, 120, 110>> /\ fnResult.jitter = 15

\* A transfer has ended on the totalBytes and the time of fnArgs.
TransferEnded ==
    fnArgs.fn \in {"testDownload", "testUpload"} /\ fnResult # NotApplied

\* C18: for the download and for the upload, the value returned for totalBytes
\* moved in a time above zero is totalBytes * 8 / seconds / (1024 * 1024)
\* rounded to two decimals: a whole number of hundredths at most half a
\* hundredth away; 1310720 bytes in 1000 ms give 10.
C18_Throughput ==
    (TransferEnded /\ fnArgs.ms > 0) =>
        LET exact == RatDiv(RatDiv(Rat(fnArgs.totalBytes * 8, 1),
                                   Rat(fnArgs.ms, 1000)),
                            Rat(1024 * 1024, 1))
            scaled == RatMul(exact, Rat(100, 1))
            h == RatMul(fnResult.value, Rat(100, 1))
        IN  /\ fnResult.kind = "number"
            /\ h.den = 1
            /\ 2 * Abs(h.num * scaled.den - scaled.num) <= scaled.den
            /\ (fnArgs.totalBytes = 1310720 /\ fnArgs.ms = 1000) =>
                  fnResult.value = [num |-> 10, den |-> 1]

\* testDownload returned 10 for 1310720 bytes moved in one second.
C18_Witness ==
    /\ TransferEnded
    /\ fnArgs.fn = "testDownload"
    /\ fnArgs.totalBytes = 1310720 /\ fnArgs.ms = 1000
    /\ fnResult = [kind |-> "number", value |-> [num |-> 10, den |-> 1]]

Transfers == {"download", "upload"}

Zero == [kind |-> "number", value |-> [num |-> 0, den |-> 1]]

\* executeTestSequence: uploadSpeed, for the invocation that is saving its
\* record (testUpload's totalBytes and elapsed time are still the latest)
uploadSpeed(run) == UploadMbps(run.totalBytes, run.elapsed * 1000)

C20_TransportFailureFails ==
    \A r \in Runs :
        runs[r].transport # "none" =>
            /\ Done(r)
            /\ runs[r].outcome = "error"
            /\ \E p \in Transfers :
                  EndedIn(r, p) /\ runs[r].error = PhaseError(p)
            /\ ~Stored(r)

\* A download and an upload each failed on a throw after bytes had been
\* accumulated.
C20_Witness ==
    \E r, q \in Runs :
        /\ runs[r].transport = "partial" /\ EndedIn(r, "download")
        /\ runs[q].transport = "partial" /\ EndedIn(q, "upload")

\* The step is invocation r's setItem resolving: its list is now the store's.
SetDone(r) ==
    /\ runs[r].pc = "save_set"
    /\ runs'[r].pc = "done"
    /\ storage' # storage

\* C21: saveTestResult, whatever list it finds in the store (also one longer
\* than MAX_HISTORY_ITEMS), prepares a list of one record more, MAX_HISTORY_ITEMS
\* at most, and that list is what the store holds once its setItem resolved: at
\* most 50 records, and exactly 50 when 50 or more were found.
C21_Step ==
    \A r \in Runs :
        /\ (runs[r].pc = "save_get" /\ runs'[r].pc = "save_set") =>
              Len(runs'[r].existing) = Min(Len(Load) + 1, MAX_HISTORY_ITEMS)
        /\ SetDone(r) =>
              /\ Load' = runs[r].existing
              /\ Len(Load') <= MAX_HISTORY_ITEMS

C21_State ==
    \A r \in Runs :
        runs[r].pc = "save_set" => Len(runs[r].existing) \in 1..MAX_HISTORY_ITEMS

C21_HistoryCapped == []C21_State /\ [][C21_Step]_vars

\* Both invocations appended, one after the other, to a list that was longer
\* than the cap: the store holds exactly 50 records.
C21_Witness ==
    /\ \A r \in Runs : Done(r) /\ Stored(r)
    /\ Len(Load) = MAX_HISTORY_ITEMS
    /\ Load[MAX_HISTORY_ITEMS] = 100 + MAX_HISTORY_ITEMS + 2 - (MAX_HISTORY_ITEMS - MaxRuns) + 1

\* C22: when an invocation's setItem resolves, its record is first in the
\* store and the records the store held follow it in the order they had (the
\* last one dropped at the cap): no record of a completed run is lost.
C22_AppendKeepsRecords ==
    [][ \A r \in Runs :
          SetDone(r) =>
              /\ Load'[1] = r
              /\ \A k \in 1..Len(Load) :
                    k < MAX_HISTORY_ITEMS =>
                        k + 1 <= Len(Load') /\ Load'[k + 1] = Load[k] ]_vars

\* C23: a record that was in the store when clearHistory emptied it is never
\* in the store again, whatever saveTestResult was under way.
C23_ClearedStayCleared == Range(Load) \cap cleared = {}

\* C24: an invocation that called saveTestResult returns its result whatever
\* happens to getItem, JSON.parse or setItem: it never ends in an error.
C24_SaveFailureNotFatal ==
    \A r \in Runs :
        /\ runs[r].pc \in {"save_get", "save_set"} => runs[r].outcome = "pending"
        /\ (Done(r) /\ runs[r].returned = Range(Phases)
              /\ runs[r].error # StoppedError) =>
              runs[r].outcome = "result" /\ runs[r].error = NoError

\* Both invocations returned their results while the store held a string that
\* does not parse, so that nothing was saved.
C24_Witness ==
    /\ storage = Garbage
    /\ \A r \in Runs : Done(r) /\ runs[r].outcome = "result"

\* C25: a retry is pending only while the error is 'network-unavailable',
\* retryCount is below maxRetries and no retryFunction call is unsettled; with
\* any other error, or none, no timer is pending.
C25_RetryOnlyWhenIdleAndOffline ==
    autoRetry.timer # 0 =>
        /\ autoRetry.error = "network-unavailable"
        /\ autoRetry.retryCount < autoRetry.maxRetries
        /\ autoRetry.inFlight = 0

C27_RetryCountBounded ==
    /\ autoRetry.retryCount \in 0..autoRetry.maxRetries
    /\ hasReachedMaxRetries(autoRetry) <=>
          autoRetry.retryCount >= autoRetry.maxRetries

\* C28: with retryTest as the retryFunction and no connectivity, at most
\* maxRetries automatic retries are started between two resets.
C28_RetriesBounded ==
    autoRetry.retryFunction = "retryTest" =>
        autoRetry.attempts <= autoRetry.maxRetries

\* 0 <= x for a throughput: NaN compares false with every number
AtLeastZero(x) ==
    \/ x.kind = "Infinity"
    \/ x.kind = "number" /\ x.value.num >= 0

\* C29: every record a run returns has downloadSpeed, uploadSpeed, ping and
\* jitter at least 0 and packetLoss between 0 and 100.
C29_RecordInRange ==
    (fnArgs.fn = "executeTestSequence" /\ fnResult # NotApplied) =>
        /\ AtLeastZero(fnResult.downloadSpeed)
        /\ AtLeastZero(fnResult.uploadSpeed)
        /\ fnResult.ping >= 0
        /\ fnResult.jitter >= 0
        /\ fnResult.packetLoss.num >= 0
        /\ fnResult.packetLoss.num <= 100 * fnResult.packetLoss.den

\* The same with the download left aside: what holds of the other fields.
C29_OtherFieldsInRange ==
    (fnArgs.fn = "executeTestSequence" /\ fnResult # NotApplied) =>
        /\ AtLeastZero(fnResult.uploadSpeed)
        /\ fnResult.ping >= 0
        /\ fnResult.jitter >= 0
        /\ fnResult.packetLoss.num >= 0
        /\ fnResult.packetLoss.num <= 100 * fnResult.packetLoss.den

\* The awaited operations that go to the network: a ping probe, the download
\* request, a download chunk read, an upload chunk POST
NetworkOperations == {"ping_fetch", "dl_fetch", "dl_read", "ul_fetch"}

\* C30: a step of an invocation that stopTest has stopped never leaves it
\* waiting for a network operation: the operation in flight at the stop may
\* complete, no other is issued.
C30_NoOperationAfterStop ==
    [][\A r \in Runs :
          (runs[r].stopped /\ runs'[r] # runs[r]) =>
              runs'[r].pc \notin NetworkOperations]_vars

\* The same for as long as the flag that stopTest set is still set.
C30_NoOperationWhileFlagSet ==
    [][\A r \in Runs :
          (runs[r].stopped /\ shouldStop /\ runs'[r] # runs[r]) =>
              runs'[r].pc \notin NetworkOperations]_vars

\* The invocation is in testUpload's loop or past it with what the loop left.
UploadMeasured(r) == runs[r].pc \in {"ul_fetch", "save_get", "save_set"}

\* C31: in and after the upload loop totalBytes is 32768 times the number of
\* POSTs answered ok, and an invocation that went on to the save left the loop
\* with the duration elapsed: an answer that is not ok neither counts nor ends
\* the phase.
C31_UploadCountsOkChunks ==
    \A r \in Runs :
        UploadMeasured(r) =>
            /\ runs[r].totalBytes = 32768 * runs[r].okChunks
            /\ runs[r].pc # "ul_fetch" =>
                  runs[r].elapsed >= currentConfig.testDuration

\* An upload whose every POST was answered not ok has returned, and another
\* is in its loop with one chunk acknowledged.
C31_Witness ==
    /\ runs[1].pc = "save_get" /\ runs[1].okChunks = 0
    /\ "upload" \in runs[1].returned
    /\ runs[2].pc = "ul_fetch" /\ runs[2].okChunks = 1

\* C32: at most one retryFunction call is unsettled, and while one is no
\* timer is pending.
C32_OneRetryInFlight ==
    /\ autoRetry.inFlight <= 1
    /\ autoRetry.inFlight = 1 => autoRetry.timer = 0

\* useSpeedTest: isLoading || progress.state === 'connecting'
isLoading == hook.isLoading \/ progress.state = "connecting"

\* Call c was made while call d was in progress, and d still is.
Overlaps(c, d) == d \in hook.calls[c].during /\ Calling(d)

\* C33: a step of a startTest call that was made while another call was in
\* progress, that call still being in progress before and after the step, sets
\* no error, does not move the progress state to 'error' and does not clear
\* isLoading.
C33_SecondStartIsNoOp ==
    [][\A c \in HookCalls :
          (/\ hook'.calls[c] # hook.calls[c]
           /\ \E d \in HookCalls : Overlaps(c, d) /\ Overlaps(c, d)') =>
              /\ hook'.error = hook.error
              /\ progress'.state = "error" => progress.state = "error"
              /\ isLoading => isLoading']_vars

\* The same for the calls made once the service holds its lock.
C33_StartWhileLockedIsNoOp ==
    [][\A c \in HookCalls :
          (isRunning /\ hook.calls[c].pc = "idle"
                     /\ hook'.calls[c].pc # "idle") =>
              /\ hook'.calls[c].outcome = "returned"
              /\ hook'.error = hook.error
              /\ progress' = progress
              /\ isLoading' = isLoading]_vars

\* startTest was called for invocation r in this step and threw at its guard.
StartRejected(r) ==
    /\ runs[r].pc = "new"
    /\ runs'[r].pc = "done"

\* C34: a startTest that throws 'Test already running' leaves the
\* configuration, both flags, the progress, the store and every other
\* invocation as they were, and emits nothing.
C34_RejectedStartChangesNothing ==
    [][\A r \in Runs :
          StartRejected(r) =>
              /\ runs'[r].error.message = "Test already running"
              /\ currentConfig' = currentConfig
              /\ isRunning' = isRunning /\ isRunning
              /\ shouldStop' = shouldStop
              /\ progress' = progress /\ emitted' = emitted
              /\ storage' = storage
              /\ \A q \in Runs \ {r} : runs'[q] = runs[q]]_vars

\* The second startTest was rejected and the first went on to return its
\* result.
C34_Witness ==
    /\ runs[2].pc = "done" /\ runs[2].wasRunning
    /\ runs[2].error.message = "Test already running"
    /\ runs[1].pc = "done" /\ runs[1].outcome = "result"
    /\ ~runs[1].stopped

\* No invocation of startTest is in progress.
Idle == \A r \in Runs : ~InProgress(r)

\* C35 (flags): whenever no invocation is in progress isTestRunning() is false
\* and shouldStop is false.
C35_IdleFlagsClear == Idle => (~isRunning /\ ~shouldStop)

\* What is left of a transfer loop: the time to the end of the window, then
\* the chunks the model lets arrive with the clock standing still.
TransferRank(run) ==
    (currentConfig.testDuration - run.elapsed) * (MaxChunks + 1)
    + (IF run.totalBytes < MaxChunks * chunkSize
       THEN MaxChunks - run.totalBytes \div chunkSize ELSE 0)

MaxTransferRank == currentConfig.testDuration * (MaxChunks + 1) + MaxChunks

\* A bound on the awaited operations an invocation still has before it ends.
Rank(run) ==
    CASE run.pc = "save_set" -> 1
      [] run.pc = "save_get" -> 2
      [] run.pc = "ul_fetch" -> 3 + TransferRank(run)
      [] run.pc = "dl_read" -> 4 + MaxTransferRank + TransferRank(run)
      [] run.pc = "dl_fetch" -> 5 + 2 * MaxTransferRank
      [] run.pc = "ping_sleep" ->
             5 + 2 * MaxTransferRank + 2 * (PING_SAMPLES - run.i) - 1
      [] run.pc = "ping_fetch" ->
             5 + 2 * MaxTransferRank + 2 * (PING_SAMPLES - run.i)
      [] run.pc = "select" -> 6 + 2 * MaxTransferRank + 2 * PING_SAMPLES
      [] run.pc = "netinfo" -> 7 + 2 * MaxTransferRank + 2 * PING_SAMPLES
      [] OTHER -> 0

\* C35 (termination): every step in which an invocation in progress moves
\* brings it closer to its end, so it ends once each of its operations has
\* settled and the clock has not stood still for ever.
C35_StepsDescend ==
    [][\A r \in Runs :
          (InProgress(r) /\ runs'[r] # [runs[r] EXCEPT
                                           !.stopped = runs'[r].stopped]) =>
              Rank(runs'[r]) < Rank(runs[r])]_vars

\* C35 (admission): with no invocation in progress isTestRunning() is false,
\* and a startTest called then is let in with shouldStop false.
C35_StartWhenIdleAdmitted ==
    /\ [](Idle => ~isRunning)
    /\ [][\A r \in Runs :
             (Idle /\ runs[r].pc = "new" /\ runs'[r].pc # "new") =>
                 (runs'[r].pc = "netinfo" /\ isRunning' /\ ~shouldStop')]_vars

====
